---------------------------- MODULE Spec2Model ----------------------------
(***************************************************************************)
(* A model of cargo-aur: the manifest model and the dependency formatter   *)
(* of src/config.rs (used by the binary) and of src/lib.rs (the library    *)
(* crate), the GitHost strategy of both, and the `work` pipeline of        *)
(* src/main.rs with the descriptor writer `pkgbuild`.                      *)
(*                                                                         *)
(* Rust's Option<T> is modelled as a sequence of length 0 (None) or 1      *)
(* (Some(v)).  Texts are TLA+ strings, so that concatenation, length and   *)
(* prefix tests are those of the program.                                  *)
(***************************************************************************)
EXTENDS Naturals, Sequences, FiniteSets, TLC

VARIABLES
    args,          \* main.rs Args: [musl, dryrun]
    cargoToml,     \* the Cargo.toml on disk: [readable, parsed]
    environ,       \* Option: the value of CARGO_AUR_ARCHIVE
    dirEntries,    \* the entries read_dir(".") would deliver
    dirReadable,   \* whether read_dir(".") succeeds
    pc,            \* position in the specification's control flow
    config,        \* Option<Config>: result of cargo_config()
    license,       \* Option<DirEntry>: `license` of work
    sha256,        \* Option<String>: `sha256` of work
    result,        \* "running", "Ok" or the kind of Err returned by work
    trace,         \* the stages executed so far, with their outcome
    tmpCopy,       \* whether ./<binary_name> (the copy made by tarball) exists
    pkgbuildFile,  \* Option<Seq(String)>: lines of <output>/PKGBUILD
    out            \* results of the pure functions applied so far

vars == <<args, cargoToml, environ, dirEntries, dirReadable, pc, config,
          license, sha256, result, trace, tmpCopy, pkgbuildFile, out>>

---------------------------------------------------------------------------
(* Bounds of the model. *)

\* Longest dependency list drawn for a manifest.
MaxDeps == 2

---------------------------------------------------------------------------
(* Option and string helpers. *)

None == <<>>

Some(v) == <<v>>

\* str::starts_with
StartsWith(s, prefix) ==
    /\ Len(s) >= Len(prefix)
    /\ SubSeq(s, 1, Len(prefix)) = prefix

\* All sequences over S of length at most n.
SeqUpTo(S, n) == UNION {[1..k -> S] : k \in 0..n}

---------------------------------------------------------------------------
(* src/config.rs *)

LICENSES == <<
    "AGPL-3.0-only",
    "AGPL-3.0-or-later",
    "Apache-2.0",
    "BSL-1.0",
    "GPL-2.0-only",
    "GPL-2.0-or-later",
    "GPL-3.0-only",
    "GPL-3.0-or-later",
    "LGPL-2.0-only",
    "LGPL-2.0-or-later",
    "LGPL-3.0-only",
    "LGBL-3.0-or-later",
    "MPL-2.0",
    "Unlicense" >>

\* impl Default for Aur
AurDefault ==
    [archive |-> None, name |-> None, depends |-> <<>>, optdepends |-> <<>>]

\* serde's derive(Deserialize) for Config / Package / Metadata / Aur applied
\* to the parsed manifest t: `metadata` and `aur` are #[serde(default)], and
\* keys the structs do not declare (the [package.metadata] depends and
\* optdepends) are ignored.
ConfigFromToml(t) ==
    LET aur == IF t.metadata = None THEN AurDefault
               ELSE IF t.metadata[1].aur = None THEN AurDefault
               ELSE t.metadata[1].aur[1]
    IN  [package |->
            [name        |-> t.name,
             version     |-> t.version,
             authors     |-> t.authors,
             description |-> t.description,
             homepage    |-> t.homepage,
             repository  |-> t.repository,
             license     |-> t.license,
             metadata    |-> [aur |-> aur]],
         bin |-> t.bin]

\* Config::binary_name
binary_name(c) ==
    IF c.bin # <<>> THEN c.bin[1] ELSE c.package.name

\* Package::tarball, relative to the output directory
tarball_name(package) ==
    package.name \o "-" \o package.version \o "-x86_64.tar.gz"

\* Package::git_host of config.rs
git_host(package) ==
    IF StartsWith(package.repository, "https://gitlab")
    THEN "Gitlab"
    ELSE "Github"

\* The `for item in middle` loop of Display for Aur: items 1..n of `items`.
RECURSIVE AurMiddle(_, _)
AurMiddle(items, n) ==
    IF n = 0 THEN ""
    ELSE AurMiddle(items, n - 1) \o "\"" \o items[n] \o "\""

\* impl Display for Aur
AurDisplay(aur) ==
    LET deps == aur.depends
        opts == aur.optdepends
        depsText ==
            IF deps # <<>>
            THEN "depends=(" \o AurMiddle(deps, Len(deps) - 1)
                 \o "\"" \o deps[Len(deps)] \o "\""
                 \o (IF opts # <<>> THEN "\n" ELSE "")
            ELSE ""
        optsText ==
            IF opts # <<>>
            THEN "optdepends=(" \o AurMiddle(opts, Len(opts) - 1)
                 \o "\"" \o opts[Len(opts)] \o "\""
            ELSE ""
    IN  depsText \o optsText

\* GitHostSource without the early return on CARGO_AUR_ARCHIVE.
GitHostSource_no_env(host, package, env) ==
    IF host = "Github"
    THEN package.repository \o "/releases/download/v$pkgver/"
         \o package.name \o "-$pkgver-x86_64.tar.gz"
    ELSE package.repository \o "/-/archive/v$pkgver/"
         \o package.name \o "-$pkgver-x86_64.tar.gz"

\* GitHostSource with the tag-archive template of lib.rs for Github.
GitHostSource_tag_archive(host, package, env) ==
    IF env # None THEN env[1]
    ELSE IF host = "Github"
    THEN package.repository \o "/archive/refs/tags/v$pkgver.tar.gz"
    ELSE package.repository \o "/-/archive/v$pkgver/"
         \o package.name \o "-$pkgver-x86_64.tar.gz"

\* GitHost::source of config.rs; env is Option: CARGO_AUR_ARCHIVE
GitHostSource(host, package, env) ==
    IF env # None THEN env[1]
    ELSE IF host = "Github"
    THEN package.repository \o "/releases/download/v$pkgver/"
         \o package.name \o "-$pkgver-x86_64.tar.gz"
    ELSE package.repository \o "/-/archive/v$pkgver/"
         \o package.name \o "-$pkgver-x86_64.tar.gz"

---------------------------------------------------------------------------
(* src/lib.rs *)

\* serde's derive(Deserialize) for the Package / Metadata / AUR of lib.rs:
\* `metadata` and `aur` are Options, the legacy lists default to empty, and
\* AUR declares only depends and optdepends.
LibPackageFromToml(t) ==
    LET aur(m) == IF m.aur = None THEN None
                  ELSE Some([depends    |-> m.aur[1].depends,
                             optdepends |-> m.aur[1].optdepends])
        metadata == IF t.metadata = None THEN None
                    ELSE Some([depends    |-> t.metadata[1].depends,
                               optdepends |-> t.metadata[1].optdepends,
                               aur        |-> aur(t.metadata[1])])
    IN  [name        |-> t.name,
         version     |-> t.version,
         authors     |-> t.authors,
         description |-> t.description,
         homepage    |-> t.homepage,
         repository  |-> t.repository,
         license     |-> t.license,
         metadata    |-> metadata]

\* lib_git_host with the first prefix cut short: every "https://git..." URL
\* is taken for the first forge.
lib_git_host_short_prefix(package) ==
    IF StartsWith(package.repository, "https://git")
    THEN "Github"
    ELSE IF StartsWith(package.repository, "https://gitlab")
    THEN "Gitlab"
    ELSE "Generic"

\* Package::git_host of lib.rs
lib_git_host(package) ==
    IF StartsWith(package.repository, "https://github")
    THEN "Github"
    ELSE IF StartsWith(package.repository, "https://gitlab")
    THEN "Gitlab"
    ELSE "Generic"

\* GitHost::source of lib.rs
LibGitHostSource(host, package, env) ==
    IF env # None THEN env[1]
    ELSE IF host = "Github"
    THEN package.repository \o "/archive/refs/tags/v$pkgver.tar.gz"
    ELSE IF host = "Gitlab"
    THEN package.repository \o "/-/archive/v$pkgver/"
         \o package.name \o "-$pkgver.tar.gz"
    ELSE package.repository \o "/archive/v$pkgver.tar.gz"

\* MetadataLists falling back to the legacy lists when the lists of the
\* [package.metadata.aur] table are empty.
MetadataLists_merge(metadata) ==
    IF metadata.aur # None
       /\ (metadata.aur[1].depends # <<>> \/ metadata.aur[1].optdepends # <<>>)
    THEN <<metadata.aur[1].depends, metadata.aur[1].optdepends>>
    ELSE <<metadata.depends, metadata.optdepends>>

\* The `let (deps, opts) = ...` of Display for Metadata: which section the
\* dependency lists are read from.
MetadataLists(metadata) ==
    IF metadata.aur # None
    THEN <<metadata.aur[1].depends, metadata.aur[1].optdepends>>
    ELSE <<metadata.depends, metadata.optdepends>>

\* The `for item in middle` loop of Display for Metadata.
RECURSIVE MetadataMiddle(_, _)
MetadataMiddle(items, n) ==
    IF n = 0 THEN ""
    ELSE MetadataMiddle(items, n - 1) \o "\"" \o items[n] \o "\" "

\* impl Display for Metadata
MetadataDisplay(metadata) ==
    LET deps == MetadataLists(metadata)[1]
        opts == MetadataLists(metadata)[2]
        depsText ==
            IF deps # <<>>
            THEN "depends=(" \o MetadataMiddle(deps, Len(deps) - 1)
                 \o (IF opts # <<>>
                     THEN "\"" \o deps[Len(deps)] \o "\")" \o "\n"
                     ELSE "\"" \o deps[Len(deps)] \o "\")")
            ELSE ""
        optsText ==
            IF opts # <<>>
            THEN "optdepends=(" \o MetadataMiddle(opts, Len(opts) - 1)
                 \o "\"" \o opts[Len(opts)] \o "\")"
            ELSE ""
    IN  depsText \o optsText

---------------------------------------------------------------------------
(* src/main.rs: the pure parts *)

\* must_copy_license with the negation dropped.
must_copy_license_not_negated(lic) ==
    \E i \in 1..Len(LICENSES) : LICENSES[i] = lic

\* must_copy_license
must_copy_license(lic) ==
    ~(\E i \in 1..Len(LICENSES) : LICENSES[i] = lic)

\* The predicate of `find` in license_file.  A directory entry is
\* [name, utf8]: OsStr::to_str is None for a name that is not valid UTF-8.
IsLicenseEntry(entry) ==
    IF entry.utf8 THEN StartsWith(entry.name, "LICENSE") ELSE FALSE

\* `authors` of pkgbuild: the maintainer lines joined by "\n".
RECURSIVE Maintainers(_, _)
Maintainers(authors, n) ==
    IF n = 0 THEN ""
    ELSE IF n = 1 THEN "# Maintainer: " \o authors[1]
    ELSE Maintainers(authors, n - 1) \o "\n" \o "# Maintainer: " \o authors[n]

\* `package_name` of pkgbuild
PackageName(package) ==
    IF package.metadata.aur.name # None
    THEN package.metadata.aur.name[1]
    ELSE package.name \o "-bin"

\* `source` of pkgbuild
PkgbuildSource(package, env) ==
    IF package.metadata.aur.archive # None
    THEN package.metadata.aur.archive[1]
    ELSE GitHostSource(git_host(package), package, env)

\* The source line pkgbuild writes.
SourceLine(package, env) ==
    LET source == PkgbuildSource(package, env)
    IN  IF ~StartsWith(source, "https://")
        THEN "source=(\"" \o package.repository \o "/" \o source \o "\")"
        ELSE "source=(\"" \o source \o "\")"

\* The writeln! calls of pkgbuild up to the install line of the binary, one
\* element per call.  (The generator comment quotes cargo aur in backquotes,
\* written as apostrophes here: a TLA+ string cannot hold a backquote.)
PkgbuildHead(c, sha, env) ==
    LET package == c.package
        dependencies == AurDisplay(package.metadata.aur)
    IN  << Maintainers(package.authors, Len(package.authors)),
           "#",
           "# This PKGBUILD was generated by 'cargo aur': https://crates.io/crates/cargo-aur",
           "",
           "pkgname=" \o PackageName(package),
           "pkgver=" \o package.version,
           "pkgrel=1",
           "pkgdesc=\"" \o package.description \o "\"",
           "url=\"" \o package.homepage \o "\"",
           "license=(\"" \o package.license \o "\")",
           "arch=(\"x86_64\")",
           "provides=(\"" \o package.name \o "\")",
           "conflicts=(\"" \o package.name \o "\")" >>
        \o (IF Len(dependencies) > 0 THEN <<dependencies>> ELSE <<>>)
        \o << SourceLine(package, env),
              "sha256sums=(\"" \o sha \o "\")",
              "",
              "package() {",
              "    install -Dm755 " \o binary_name(c) \o " -t \"$pkgdir/usr/bin\"" >>

\* The install line of the license file.
LicenseInstall(lic) ==
    "    install -Dm644 " \o lic.name
    \o " \"$pkgdir/usr/share/licenses/$pkgname/" \o lic.name \o "\""

\* Everything pkgbuild writes when no step of it fails.
PkgbuildLines(c, sha, lic, env) ==
    PkgbuildHead(c, sha, env)
    \o (IF lic # None THEN <<LicenseInstall(lic[1])>> ELSE <<>>)
    \o <<"}">>

---------------------------------------------------------------------------
(* The inputs drawn for the pipeline. *)

\* A parsed Cargo.toml with the given repository, license and
\* [package.metadata] table.
Manifest(repository, lic, metadata) ==
    [name        |-> "foo",
     version     |-> "1.2.3",
     authors     |-> <<"Val">>,
     description |-> "A tool",
     homepage    |-> "https://example.org/foo",
     repository  |-> repository,
     license     |-> lic,
     bin         |-> <<>>,
     metadata    |-> metadata]

\* A [package.metadata] table: the legacy lists and the optional
\* [package.metadata.aur] table.
MetadataTable(depends, optdepends, aur) ==
    [depends |-> depends, optdepends |-> optdepends, aur |-> aur]

\* A [package.metadata.aur] table.
AurTable(archive, name, depends, optdepends) ==
    [archive |-> archive, name |-> name,
     depends |-> depends, optdepends |-> optdepends]

WorkManifests ==
    { Manifest("https://github.com/u/foo", lic, metadata) :
        lic \in {"MIT", "Apache-2.0"},
        metadata \in
            { None,
              Some(MetadataTable(<<>>, <<>>,
                   Some(AurTable(None, None, <<"a", "b">>, <<>>)))) } }

\* What Cargo.toml can be: unreadable, not valid TOML for Config, or a manifest.
WorkCargoTomls ==
    { [readable |-> FALSE, parsed |-> None],
      [readable |-> TRUE, parsed |-> None] }
    \cup { [readable |-> TRUE, parsed |-> Some(t)] : t \in WorkManifests }

\* What the project root can hold.
WorkDirectories ==
    { {},
      { [name |-> "LICENSE", utf8 |-> TRUE] },
      { [name |-> "LICENSE-MIT", utf8 |-> TRUE],
        [name |-> "README.md", utf8 |-> TRUE] },
      { [name |-> "LICENSE", utf8 |-> FALSE] } }

\* The digest sha256sum yields for the tarball, in hexadecimal.
Sha256Hex == "9f86d081884c7d65"

---------------------------------------------------------------------------
(* src/main.rs: work, one action per stage *)

Log(stage, outcome) ==
    trace' = Append(trace, [stage |-> stage, outcome |-> outcome])

\* `?` on an Err, or the final return of work
Return(res) ==
    /\ pc' = "done"
    /\ result' = res

Goto(stage) ==
    /\ pc' = stage
    /\ UNCHANGED result

Init ==
    /\ args \in [musl : BOOLEAN, dryrun : BOOLEAN]
    /\ cargoToml \in WorkCargoTomls
    /\ environ = None
    /\ dirEntries \in WorkDirectories
    /\ dirReadable \in BOOLEAN
    /\ pc = "musl_check"
    /\ config = None
    /\ license = None
    /\ sha256 = None
    /\ result = "running"
    /\ trace = <<>>
    /\ tmpCopy = FALSE
    /\ pkgbuildFile = None
    /\ out = <<>>

\* `if args.musl { musl_check()? }`
musl_check ==
    /\ pc = "musl_check"
    /\ IF args.musl
       THEN \E o \in {"spawn_failed", "not_utf8", "not_installed", "installed"} :
              CASE o = "spawn_failed" ->
                     Log("musl_check", "err") /\ Return("Io")
                [] o = "not_utf8" ->
                     Log("musl_check", "err") /\ Return("Utf8")
                [] o = "not_installed" ->
                     Log("musl_check", "err") /\ Return("MissingMuslTarget")
                [] OTHER ->
                     Log("musl_check", "ok") /\ Goto("create_dir_all")
       ELSE Goto("create_dir_all") /\ UNCHANGED trace
    /\ UNCHANGED <<args, cargoToml, environ, dirEntries, dirReadable, config,
                   license, sha256, tmpCopy, pkgbuildFile, out>>

\* `std::fs::create_dir_all(&output)?`
create_dir_all ==
    /\ pc = "create_dir_all"
    /\ \E ok \in BOOLEAN :
         IF ok
         THEN Log("create_dir_all", "ok") /\ Goto("cargo_config")
         ELSE Log("create_dir_all", "err") /\ Return("Io")
    /\ UNCHANGED <<args, cargoToml, environ, dirEntries, dirReadable, config,
                   license, sha256, tmpCopy, pkgbuildFile, out>>

\* `let config = cargo_config()?`
cargo_config ==
    /\ pc = "cargo_config"
    /\ IF ~cargoToml.readable
       THEN Log("cargo_config", "err") /\ Return("Io") /\ UNCHANGED config
       ELSE IF cargoToml.parsed = None
       THEN Log("cargo_config", "err") /\ Return("Toml") /\ UNCHANGED config
       ELSE /\ Log("cargo_config", "ok")
            /\ config' = Some(ConfigFromToml(cargoToml.parsed[1]))
            /\ Goto("license")
    /\ UNCHANGED <<args, cargoToml, environ, dirEntries, dirReadable,
                   license, sha256, tmpCopy, pkgbuildFile, out>>

\* `let license = if must_copy_license(..) { Some(license_file()?) } else { None }`
license_file ==
    /\ pc = "license"
    /\ IF must_copy_license(config[1].package.license)
       THEN IF ~dirReadable
            THEN Log("license_file", "err") /\ Return("Io") /\ UNCHANGED license
            ELSE IF {e \in dirEntries : IsLicenseEntry(e)} = {}
            THEN /\ Log("license_file", "err")
                 /\ Return("MissingLicense")
                 /\ UNCHANGED license
            ELSE \E e \in {e \in dirEntries : IsLicenseEntry(e)} :
                   /\ Log("license_file", "ok")
                   /\ license' = Some(e)
                   /\ Goto("dryrun")
       ELSE /\ license' = None
            /\ Goto("dryrun")
            /\ UNCHANGED trace
    /\ UNCHANGED <<args, cargoToml, environ, dirEntries, dirReadable, config,
                   sha256, tmpCopy, pkgbuildFile, out>>

\* dryrun with the flag not looked at.
dryrun_ignored ==
    /\ pc = "dryrun"
    /\ Goto("release_build")
    /\ UNCHANGED <<args, cargoToml, environ, dirEntries, dirReadable, config,
                   license, sha256, trace, tmpCopy, pkgbuildFile, out>>

\* `if args.dryrun { return Ok(()); }`
dryrun ==
    /\ pc = "dryrun"
    /\ IF args.dryrun THEN Return("Ok") ELSE Goto("release_build")
    /\ UNCHANGED <<args, cargoToml, environ, dirEntries, dirReadable, config,
                   license, sha256, trace, tmpCopy, pkgbuildFile, out>>

\* What `Command::status()?` followed by `Ok(())` does: Err only when the
\* tool cannot be started; its exit status is not looked at.
RunTool(stage, next) ==
    \E o \in {"spawn_failed", "exit_zero", "exit_nonzero"} :
        CASE o = "spawn_failed" -> Log(stage, "err") /\ Return("Io")
          [] o = "exit_zero"    -> Log(stage, "ok") /\ Goto(next)
          [] OTHER              -> Log(stage, "nonzero") /\ Goto(next)

\* `release_build(args.musl)?`
release_build ==
    /\ pc = "release_build"
    /\ RunTool("release_build", "strip")
    /\ UNCHANGED <<args, cargoToml, environ, dirEntries, dirReadable, config,
                   license, sha256, tmpCopy, pkgbuildFile, out>>

\* tarball: `strip(&binary)?`
strip ==
    /\ pc = "strip"
    /\ RunTool("strip", "copy")
    /\ UNCHANGED <<args, cargoToml, environ, dirEntries, dirReadable, config,
                   license, sha256, tmpCopy, pkgbuildFile, out>>

\* tarball: `std::fs::copy(binary, binary_name)?`
copy ==
    /\ pc = "copy"
    /\ \E ok \in BOOLEAN :
         IF ok
         THEN Log("copy", "ok") /\ tmpCopy' = TRUE /\ Goto("tar")
         ELSE Log("copy", "err") /\ Return("Io") /\ UNCHANGED tmpCopy
    /\ UNCHANGED <<args, cargoToml, environ, dirEntries, dirReadable, config,
                   license, sha256, pkgbuildFile, out>>

\* tarball: `command.status()?` of tar
tar ==
    /\ pc = "tar"
    /\ RunTool("tar", "remove_file")
    /\ UNCHANGED <<args, cargoToml, environ, dirEntries, dirReadable, config,
                   license, sha256, tmpCopy, pkgbuildFile, out>>

\* tarball: `std::fs::remove_file(binary_name)?` and the return of tarball
remove_file ==
    /\ pc = "remove_file"
    /\ \E ok \in BOOLEAN :
         IF ok
         THEN Log("remove_file", "ok") /\ tmpCopy' = FALSE /\ Goto("sha256sum")
         ELSE Log("remove_file", "err") /\ Return("Io") /\ UNCHANGED tmpCopy
    /\ UNCHANGED <<args, cargoToml, environ, dirEntries, dirReadable, config,
                   license, sha256, pkgbuildFile, out>>

\* `let sha256: String = sha256sum(&config.package, &output)?`
sha256sum ==
    /\ pc = "sha256sum"
    /\ \E ok \in BOOLEAN :
         IF ok
         THEN /\ Log("sha256sum", "ok")
              /\ sha256' = Some(Sha256Hex)
              /\ Goto("file_create")
         ELSE Log("sha256sum", "err") /\ Return("Io") /\ UNCHANGED sha256
    /\ UNCHANGED <<args, cargoToml, environ, dirEntries, dirReadable, config,
                   license, tmpCopy, pkgbuildFile, out>>

\* `let file = BufWriter::new(File::create(&path)?)`: the file is created,
\* or truncated, before anything of the descriptor is composed.
file_create ==
    /\ pc = "file_create"
    /\ \E ok \in BOOLEAN :
         IF ok
         THEN /\ Log("file_create", "ok")
              /\ pkgbuildFile' = Some(<<>>)
              /\ Goto("pkgbuild")
         ELSE /\ Log("file_create", "err")
              /\ Return("Io")
              /\ UNCHANGED pkgbuildFile
    /\ UNCHANGED <<args, cargoToml, environ, dirEntries, dirReadable, config,
                   license, sha256, tmpCopy, out>>

\* `pkgbuild(file, &config, &sha256, license.as_ref())?` and `Ok(())`.
\* The writeln! calls fill the BufWriter, which hands its bytes to the file
\* when it is full and when it is dropped at the return of pkgbuild; an
\* error of the flush on drop is discarded.  k is the number of lines that
\* reached the file.
pkgbuild ==
    /\ pc = "pkgbuild"
    /\ LET head  == PkgbuildHead(config[1], sha256[1], environ)
           lines == PkgbuildLines(config[1], sha256[1], license, environ)
       IN  IF license # None /\ ~license[1].utf8
           THEN \* `into_string().map_err(|_| Error::Utf8OsString)?`
                \E k \in 0..Len(head) :
                    /\ pkgbuildFile' = Some(SubSeq(head, 1, k))
                    /\ Log("pkgbuild", "err")
                    /\ Return("Utf8OsString")
           ELSE \E k \in 0..Len(lines), failure \in {"write", "drop"} :
                    /\ pkgbuildFile' = Some(SubSeq(lines, 1, k))
                    /\ IF k = Len(lines)
                       THEN Log("pkgbuild", "ok") /\ Return("Ok")
                       ELSE IF failure = "write"
                       THEN Log("pkgbuild", "err") /\ Return("Io")
                       ELSE Log("pkgbuild", "flush_lost") /\ Return("Ok")
    /\ UNCHANGED <<args, cargoToml, environ, dirEntries, dirReadable, config,
                   license, sha256, tmpCopy, out>>

Next ==
    \/ musl_check
    \/ create_dir_all
    \/ cargo_config
    \/ license_file
    \/ dryrun
    \/ release_build
    \/ strip
    \/ copy
    \/ tar
    \/ remove_file
    \/ sha256sum
    \/ file_create
    \/ pkgbuild

Spec == Init /\ [][Next]_vars

---------------------------------------------------------------------------
(* The dependency formatters and the metadata resolution, applied to every *)
(* manifest with dependency lists of bounded length.                       *)

\* Longest legacy ([package.metadata]) dependency list drawn.
MaxLegacy == 1

\* Identifiers of the [package.metadata.aur] lists and of the legacy lists.
Idents == {"a", "b"}

LegacyIdents == {"x", "y"}

FormatMetadataTables ==
    {None}
    \cup { Some(MetadataTable(depends, optdepends, aur)) :
             depends \in SeqUpTo(LegacyIdents, MaxLegacy),
             optdepends \in SeqUpTo(LegacyIdents, MaxLegacy),
             aur \in {None}
                     \cup { Some(AurTable(None, None, d, o)) :
                              d \in SeqUpTo(Idents, MaxDeps),
                              o \in SeqUpTo(Idents, MaxDeps) } }

\* The variables the pure specifications do not use.
PipelineIdle ==
    /\ args = [musl |-> FALSE, dryrun |-> FALSE]
    /\ dirEntries = {}
    /\ dirReadable = TRUE
    /\ config = None
    /\ license = None
    /\ sha256 = None
    /\ result = "running"
    /\ trace = <<>>
    /\ tmpCopy = FALSE
    /\ pkgbuildFile = None

FormatInit ==
    /\ cargoToml \in
         { [readable |-> TRUE,
            parsed |-> Some(Manifest("https://github.com/u/foo", "MIT", m))] :
             m \in FormatMetadataTables }
    /\ environ = None
    /\ pc = "format"
    /\ out = [aur |-> None, metadata |-> None]
    /\ PipelineIdle

\* config.rs: deserialize the manifest and format its Aur, as pkgbuild does
\* with `format!("{}", metadata)`.
format_aur ==
    /\ pc = "format"
    /\ out.aur = None
    /\ LET aur == ConfigFromToml(cargoToml.parsed[1]).package.metadata.aur
       IN  out' = [out EXCEPT !.aur =
                      Some([lists |-> <<aur.depends, aur.optdepends>>,
                            text  |-> AurDisplay(aur)])]
    /\ UNCHANGED <<args, cargoToml, environ, dirEntries, dirReadable, pc,
                   config, license, sha256, result, trace, tmpCopy,
                   pkgbuildFile>>

\* lib.rs: deserialize the manifest and format its Metadata, when it has one.
format_metadata ==
    /\ pc = "format"
    /\ out.metadata = None
    /\ LET metadata == LibPackageFromToml(cargoToml.parsed[1]).metadata
       IN  /\ metadata # None
           /\ out' = [out EXCEPT !.metadata =
                         Some([lists |-> MetadataLists(metadata[1]),
                               text  |-> MetadataDisplay(metadata[1])])]
    /\ UNCHANGED <<args, cargoToml, environ, dirEntries, dirReadable, pc,
                   config, license, sha256, result, trace, tmpCopy,
                   pkgbuildFile>>

FormatNext ==
    \/ format_aur
    \/ format_metadata

FormatSpec == FormatInit /\ [][FormatNext]_vars

---------------------------------------------------------------------------
(* The GitHost strategy and the source line, applied to a set of           *)
(* repositories, explicit archives and values of CARGO_AUR_ARCHIVE.        *)

HostRepositories ==
    { "https://github.com/u/foo",
      "https://github.example.org/u/foo",
      "https://gitlab.com/u/foo",
      "https://gitlab",
      "https://codeberg.org/u/foo",
      "http://github.com/u/foo",
      "git@gitlab.com:u/foo.git" }

\* An absolute and a relative archive location.
HostArchives == {"https://cdn.example.org/foo.tar.gz", "dist/foo.tar.gz"}

HostOverrides == {"https://mirror.example.org/foo.tgz", "local/foo.tgz"}

HostMetadataTables ==
    {None}
    \cup { Some(MetadataTable(<<>>, <<>>, Some(AurTable(archive, None, <<>>, <<>>)))) :
             archive \in {None} \cup {Some(a) : a \in HostArchives} }

HostInit ==
    /\ cargoToml \in
         { [readable |-> TRUE, parsed |-> Some(Manifest(r, "MIT", m))] :
             r \in HostRepositories, m \in HostMetadataTables }
    /\ environ \in {None} \cup {Some(v) : v \in HostOverrides}
    /\ pc = "host"
    /\ out = [host |-> None, source |-> None, line |-> None]
    /\ PipelineIdle

\* Package::git_host of config.rs and of lib.rs
classify_host ==
    /\ pc = "host"
    /\ out.host = None
    /\ out' = [out EXCEPT !.host =
                  Some([config |-> git_host(ConfigFromToml(cargoToml.parsed[1]).package),
                        lib    |-> lib_git_host(LibPackageFromToml(cargoToml.parsed[1]))])]
    /\ UNCHANGED <<args, cargoToml, environ, dirEntries, dirReadable, pc,
                   config, license, sha256, result, trace, tmpCopy,
                   pkgbuildFile>>

\* GitHost::source of config.rs and of lib.rs on the classified host
host_source ==
    /\ pc = "host"
    /\ out.host # None
    /\ out.source = None
    /\ out' = [out EXCEPT !.source =
                  Some([config |-> GitHostSource(out.host[1].config,
                                      ConfigFromToml(cargoToml.parsed[1]).package,
                                      environ),
                        lib    |-> LibGitHostSource(out.host[1].lib,
                                      LibPackageFromToml(cargoToml.parsed[1]),
                                      environ)])]
    /\ UNCHANGED <<args, cargoToml, environ, dirEntries, dirReadable, pc,
                   config, license, sha256, result, trace, tmpCopy,
                   pkgbuildFile>>

\* The source line of pkgbuild
source_line ==
    /\ pc = "host"
    /\ out.line = None
    /\ out' = [out EXCEPT !.line =
                  Some(SourceLine(ConfigFromToml(cargoToml.parsed[1]).package,
                                  environ))]
    /\ UNCHANGED <<args, cargoToml, environ, dirEntries, dirReadable, pc,
                   config, license, sha256, result, trace, tmpCopy,
                   pkgbuildFile>>

HostNext ==
    \/ classify_host
    \/ host_source
    \/ source_line

HostSpec == HostInit /\ [][HostNext]_vars

---------------------------------------------------------------------------
(* Properties of the formatters and of the metadata resolution, under      *)
(* FormatSpec.                                                             *)

\* The manifest the specification was started with.
Toml == cargoToml.parsed[1]

\* The [package.metadata.aur] table of the manifest, as an Option.
TomlAur ==
    IF Toml.metadata = None THEN None ELSE Toml.metadata[1].aur

\* The array literal category=("item1" ... "itemN") for a non-empty list.
Quoted(item) == "\"" \o item \o "\""

RECURSIVE JoinQuoted(_)
JoinQuoted(items) ==
    IF items = <<>> THEN ""
    ELSE IF Len(items) = 1 THEN Quoted(Head(items))
    ELSE Quoted(Head(items)) \o " " \o JoinQuoted(Tail(items))

ArrayLine(category, items) == category \o "=(" \o JoinQuoted(items) \o ")"

ExpectedDependencies(deps, opts) ==
    IF deps = <<>> /\ opts = <<>> THEN ""
    ELSE IF opts = <<>> THEN ArrayLine("depends", deps)
    ELSE IF deps = <<>> THEN ArrayLine("optdepends", opts)
    ELSE ArrayLine("depends", deps) \o "\n" \o ArrayLine("optdepends", opts)

\* C1: for every pair of lists the formatter output is nothing for an empty
\* list and otherwise depends=("item1" ... "itemN") and
\* optdepends=("item1" ... "itemN"): items double-quoted, separated by one
\* space, closed by a parenthesis, the two lines separated by one newline.
\* Stated of the two formatters, Display for Aur and Display for Metadata.
C1_FormatterOutput ==
    /\ out.aur # None =>
         out.aur[1].text
            = ExpectedDependencies(out.aur[1].lists[1], out.aur[1].lists[2])
    /\ out.metadata # None =>
         out.metadata[1].text
            = ExpectedDependencies(out.metadata[1].lists[1],
                                   out.metadata[1].lists[2])

\* The lists the claim C4 expects: those of the override table when there
\* is one, the legacy lists otherwise.
OverrideLists == <<TomlAur[1].depends, TomlAur[1].optdepends>>

LegacyLists == <<Toml.metadata[1].depends, Toml.metadata[1].optdepends>>

---------------------------------------------------------------------------
(* Properties of the GitHost strategy and of the source line, under        *)
(* HostSpec.                                                               *)

\* The explicit archive of the override table, as an Option.
TomlArchive ==
    IF TomlAur = None THEN None ELSE TomlAur[1].archive

IsPrimaryForge(url) == StartsWith(url, "https://github")

IsSecondaryForge(url) == StartsWith(url, "https://gitlab")

\* C2 as claimed: a URL with the primary-forge prefix is Github, any other
\* with the secondary-forge prefix is Gitlab, and every other URL is Generic.
\* Stated of both Package::git_host.
C2_ThreeWayEverywhere ==
    out.host # None =>
        LET expected == IF IsPrimaryForge(Toml.repository) THEN "Github"
                        ELSE IF IsSecondaryForge(Toml.repository) THEN "Gitlab"
                        ELSE "Generic"
        IN  /\ out.host[1].lib = expected
            /\ out.host[1].config = expected

\* C2 amended: Package::git_host of lib.rs classifies by the ordered prefix
\* test into Github, Gitlab and Generic; Package::git_host of config.rs has
\* no Generic variant: the secondary-forge prefix yields Gitlab and every
\* other URL yields Github.
C2_PrefixClassification ==
    out.host # None =>
        /\ out.host[1].lib =
             IF IsPrimaryForge(Toml.repository) THEN "Github"
             ELSE IF IsSecondaryForge(Toml.repository) THEN "Gitlab"
             ELSE "Generic"
        /\ out.host[1].config =
             IF IsSecondaryForge(Toml.repository) THEN "Gitlab" ELSE "Github"

\* A secondary-forge URL that is more than the prefix has been classified.
C2_Witness ==
    /\ out.host # None
    /\ Toml.repository = "https://gitlab.com/u/foo"
    /\ out.host[1].lib = "Gitlab"
    /\ out.host[1].config = "Gitlab"

\* The source line for an archive location.
ExpectedSourceLine(location) ==
    IF StartsWith(location, "https://")
    THEN "source=(\"" \o location \o "\")"
    ELSE "source=(\"" \o Toml.repository \o "/" \o location \o "\")"

\* C3 as claimed: whenever CARGO_AUR_ARCHIVE is set the source line holds
\* exactly its value, whatever the repository, the explicit archive of the
\* override table and the form of the value.
C3_OverrideAlwaysVerbatim ==
    environ # None /\ out.line # None =>
        out.line[1] = "source=(\"" \o environ[1] \o "\")"

\* C3 amended: whenever CARGO_AUR_ARCHIVE is set, GitHost::source returns
\* exactly its value whatever the repository and the GitHost variant; the
\* source line holds that value when the override table declares no explicit
\* archive, unmodified if it starts with "https://" and behind
\* "<repository>/" otherwise; an explicit archive of the override table
\* takes the place of the value.
C3_OverrideUnlessArchive ==
    environ # None =>
        /\ out.source # None =>
             /\ out.source[1].config = environ[1]
             /\ out.source[1].lib = environ[1]
        /\ out.line # None /\ TomlArchive = None =>
             out.line[1] = ExpectedSourceLine(environ[1])
        /\ out.line # None /\ TomlArchive # None =>
             out.line[1] = ExpectedSourceLine(TomlArchive[1])

\* The variable holds an absolute URL, the repository is on the secondary
\* forge, no explicit archive: the source line holds the value unmodified.
C3_Witness ==
    /\ environ = Some("https://mirror.example.org/foo.tgz")
    /\ Toml.repository = "https://gitlab.com/u/foo"
    /\ TomlArchive = None
    /\ out.source # None
    /\ out.line = Some("source=(\"https://mirror.example.org/foo.tgz\")")

\* The manifest of the example of C8.
IsExampleManifest ==
    /\ Toml.name = "foo"
    /\ Toml.version = "1.2.3"
    /\ Toml.repository = "https://github.com/u/foo"
    /\ Toml.license = "MIT"
    /\ Toml.metadata = None
    /\ environ = None

\* C8 as claimed: for the example manifest the source URL is
\* https://github.com/u/foo/releases/download/v1.2.3/foo-1.2.3-x86_64.tar.gz,
\* and for a primary-forge repository it is
\* <repository>/releases/download/v<version>/<name>-<version>-x86_64.tar.gz.
C8_VersionInSourceUrl ==
    out.host # None /\ out.source # None
    /\ environ = None /\ TomlArchive = None
    /\ IsPrimaryForge(Toml.repository) =>
        out.source[1].config
            = Toml.repository \o "/releases/download/v" \o Toml.version \o "/"
              \o Toml.name \o "-" \o Toml.version \o "-x86_64.tar.gz"

\* C8 amended: the source URL carries the placeholder $pkgver, not the
\* version: for the example manifest GitHost::source of config.rs, the one
\* pkgbuild uses, yields
\* https://github.com/u/foo/releases/download/v$pkgver/foo-$pkgver-x86_64.tar.gz
\* and that is the URL of the source line; for every repository config.rs
\* classifies as Github it yields
\* <repository>/releases/download/v$pkgver/<name>-$pkgver-x86_64.tar.gz,
\* while GitHost::source of lib.rs yields
\* <repository>/archive/refs/tags/v$pkgver.tar.gz for its Github variant.
C8_PlaceholderInSourceUrl ==
    /\ IsExampleManifest =>
         /\ out.host # None =>
              out.host[1] = [config |-> "Github", lib |-> "Github"]
         /\ out.source # None =>
              out.source[1].config
                 = "https://github.com/u/foo/releases/download/v$pkgver/foo-$pkgver-x86_64.tar.gz"
         /\ out.line # None =>
              out.line[1]
                 = "source=(\"https://github.com/u/foo/releases/download/v$pkgver/foo-$pkgver-x86_64.tar.gz\")"
    /\ out.host # None /\ out.source # None /\ environ = None =>
         /\ out.host[1].config = "Github" =>
              out.source[1].config
                 = Toml.repository \o "/releases/download/v$pkgver/"
                   \o Toml.name \o "-$pkgver-x86_64.tar.gz"
         /\ out.host[1].lib = "Github" =>
              out.source[1].lib
                 = Toml.repository \o "/archive/refs/tags/v$pkgver.tar.gz"

\* The example manifest has been classified and its source URL and source
\* line computed.
C8_Witness ==
    /\ IsExampleManifest
    /\ out.host # None
    /\ out.source # None
    /\ out.line # None

---------------------------------------------------------------------------
(* Properties of the pipeline, under Spec.                                 *)

\* The stages that build, package or write.
BuildStages ==
    {"release_build", "strip", "copy", "tar", "remove_file", "sha256sum",
     "file_create", "pkgbuild"}

Executed == {trace[i].stage : i \in 1..Len(trace)}

\* The license identifier is one of the allow-list.
InAllowList(lic) == lic \in {LICENSES[i] : i \in 1..Len(LICENSES)}

\* C5: in a run without --dryrun no stage is executed after a failed one,
\* a tool that ran and exited with a non-zero status counting as failed,
\* and work returns an error when a stage has failed.
C5_FailureAborts ==
    ~args.dryrun =>
        /\ \A i \in 1..Len(trace) :
             trace[i].outcome # "ok" => i = Len(trace)
        /\ pc = "done" /\ (\E i \in 1..Len(trace) : trace[i].outcome # "ok")
             => result # "Ok"

ManifestOrLicenseMissing ==
    \/ ~cargoToml.readable
    \/ cargoToml.parsed = None
    \/ /\ ~InAllowList(Toml.license)
       /\ {e \in dirEntries : IsLicenseEntry(e)} = {}

\* C7 as claimed: with --dryrun no build, strip, archive, checksum or
\* PKGBUILD-write stage is ever executed; work returns an error when the
\* manifest cannot be read or parsed or a required license file is missing,
\* and success otherwise.
C7_DryRunSuccessOtherwise ==
    args.dryrun =>
        /\ Executed \cap BuildStages = {}
        /\ pkgbuildFile = None
        /\ pc = "done" => (result # "Ok" <=> ManifestOrLicenseMissing)

\* C7 amended: with --dryrun no build, strip, archive, checksum or
\* PKGBUILD-write stage is ever executed, yet work still checks the musl
\* target (with --musl), creates the output directory, reads and parses the
\* manifest and checks license presence: it returns an error when the
\* manifest cannot be read or parsed or a required license file is missing,
\* and also when the musl check, the creation of the output directory or
\* the listing of the project root fails; it returns success otherwise.
C7_DryRunValidates ==
    args.dryrun =>
        /\ Executed \cap BuildStages = {}
        /\ pkgbuildFile = None
        /\ pc = "done" =>
             /\ ManifestOrLicenseMissing => result # "Ok"
             /\ result = "Ok" <=>
                  \A i \in 1..Len(trace) : trace[i].outcome = "ok"
             /\ result = "Ok" =>
                  /\ {"create_dir_all", "cargo_config"} \subseteq Executed
                  /\ args.musl => "musl_check" \in Executed
                  /\ ~InAllowList(Toml.license) =>
                       /\ "license_file" \in Executed
                       /\ license # None
                       /\ IsLicenseEntry(license[1])

\* A dry run has ended in success after it found the license file of a
\* manifest whose license is not in the allow-list.
C7_Witness ==
    /\ args.dryrun
    /\ pc = "done"
    /\ result = "Ok"
    /\ license # None
    /\ "cargo_config" \in Executed

\* C9: the PKGBUILD is never left partially written: when work has ended
\* the file is untouched or holds the complete descriptor, and a failure
\* found while composing (the name of the license file is not UTF-8) leaves
\* the file untouched.
C9_NoPartialDescriptor ==
    pc = "done" =>
        /\ pkgbuildFile # None =>
             pkgbuildFile[1] = PkgbuildLines(config[1], sha256[1], license, environ)
        /\ result = "Utf8OsString" => pkgbuildFile = None

\* C10: once tarball has returned, with success or with an error, the copy
\* of the binary it made in the working directory is gone.
C10_CopyRemoved ==
    /\ pc \in {"sha256sum", "file_create", "pkgbuild", "done"}
    /\ "copy" \in Executed
    /\ \E i \in 1..Len(trace) : trace[i] = [stage |-> "copy", outcome |-> "ok"]
    => ~tmpCopy

===========================================================================
